---- MODULE Spec2Model ----
(***************************************************************************)
(* Model of the crawl orchestration of the SEO metadata crawler:           *)
(* the command-line entry point (main.ts), the crawl controller            *)
(* (crawl.ts) and the fetch/extract collaborator (metadata.ts).            *)
(*                                                                         *)
(* The controller is one async function on a single-threaded event loop.   *)
(* Its synchronous stretches are split into steps by the program counter   *)
(* pc; the only real concurrency is between the fetches of one batch,      *)
(* which resolve in any order while pc = "await".                          *)
(***************************************************************************)
EXTENDS Integers, Sequences, FiniteSets, TLC

\* ------------------------------------------------------------------ bounds
MaxDepth == 1
MaxLimit == 3
MaxConcurrency == 2
MaxSitemapLen == 2
MaxPendingCalls == 4

\* ------------------------------------------------------------ the web site
BaseUrl == "https://example.com"
UrlA == "https://example.com/a"
UrlB == "https://example.com/b"
AllUrls == {BaseUrl, UrlA, UrlB}

DefaultSitemap == "https://example.com/sitemap.xml"

\* sequences over S of length at most n
SeqsUpTo(S, n) == UNION {[1..k -> S] : k \in 0..n}

\* what the sitemap resolver can return for this site
Sitemaps == SeqsUpTo(AllUrls, MaxSitemapLen)

\* a page of another site
ExternalUrl == "https://other.example/x"

\* A URL string is a page address, some trailing slashes and maybe a
\* fragment.
UrlParts == [stem : AllUrls \cup {ExternalUrl}, slashes : 0..2, frag : BOOLEAN]

Slashes(n) == CASE n = 0 -> "" [] n = 1 -> "/" [] n = 2 -> "//"

Spell(r) == r.stem \o Slashes(r.slashes) \o (IF r.frag THEN "#top" ELSE "")

\* the parts of every URL string
PartsOf ==
  [u \in {Spell(r) : r \in UrlParts} |-> CHOOSE r \in UrlParts : Spell(r) = u]

ParseUrl(u) == PartsOf[u]

\* other spellings of the pages /a and /b, and of the start page
UrlASlash == Spell([stem |-> UrlA, slashes |-> 1, frag |-> FALSE])
UrlAFragment == Spell([stem |-> UrlA, slashes |-> 0, frag |-> TRUE])
UrlBSlash == Spell([stem |-> UrlB, slashes |-> 1, frag |-> FALSE])
UrlBFragment == Spell([stem |-> UrlB, slashes |-> 0, frag |-> TRUE])
BaseUrlSlash == Spell([stem |-> BaseUrl, slashes |-> 1, frag |-> FALSE])

\* the URL strings that can reach the queue: the pages as sitemap, start
\* URL and normalized links name them, and the other spellings a sitemap
\* of this site uses
SiteUrls == AllUrls \cup {UrlASlash, UrlAFragment}

\* the href attributes of the <a> elements of a fetched page: none, two new
\* pages, or one page three times, a foreign page and the start page
LinkLists ==
  { <<>>,
    <<UrlASlash, UrlBFragment>>,
    <<UrlB, UrlBSlash, ExternalUrl, BaseUrlSlash>> }

\* How a fetch can fail inside the try block of extractMetadata:
\* "timeout": fetch() itself rejects (abort by the timer; a network error
\*            rejects at the same await),
\* "http":    the body of the try throws (non-success status; a document
\*            that cannot be parsed throws three lines further down).
FetchFailures == {"timeout", "http"}
FetchOutcomes == {"ok"} \cup FetchFailures

Formats == {"json", "csv", "html"}

\* the staleness window of the cache check of report.ts, in hours
StalenessWindow == 24

\* the clock at program start: the cache is one hour short of stale, or
\* exactly as old as the window
Clocks == {StalenessWindow - 1, StalenessWindow}

\* ------------------------------------------------------------------- state
VARIABLES
  pc,            \* position of the controller
  options,       \* CrawlOptions built by main.ts
  cacheAtStart,  \* content of the cache file when the program starts
  cacheFile,     \* current content of output/<host>.json
  outFile,       \* current content of output/<name>.<format>
  sitemapCalls,  \* number of parseSitemap invocations
  sitemapUrls,   \* crawl(): sitemapUrls
  visited,       \* crawl(): visited
  queue,         \* crawl(): queue
  results,       \* crawl(): results
  processed,     \* crawl(): processed
  batch,         \* crawl(): batch of the current loop iteration
  promises,      \* crawl(): state of each promise of the batch
  idx,           \* position of the integration loop in batchResults
  fetched,       \* per URL, number of extractMetadata invocations
  failed,        \* URLs whose fetch ended in a failure
  clock,         \* wall clock, in hours since the cache file was written
  reportCalls,   \* number of generateReport invocations
  sitemapFailed, \* the sitemap could not be fetched or parsed
  cmsPages,      \* what main.ts handed to pushToCms
  enqueued,      \* every task queue.push was called with, in call order
  lastFetch,     \* the time of the last extractMetadata call, 0 before any
  webDocs,       \* the sitemap documents the site serves
  parsed,        \* sitemap resolution alone: what parseSitemap returned
  frames,        \* sitemap resolution alone: the pending parseSitemap calls
  rendered       \* rendering alone: the files written so far

vars == <<pc, options, cacheAtStart, cacheFile, outFile, sitemapCalls,
          sitemapUrls, visited, queue, results, processed, batch, promises,
          idx, fetched, failed, clock, reportCalls, sitemapFailed, cmsPages,
          enqueued, lastFetch, webDocs, parsed, frames, rendered>>

\* what no step of a crawl changes: the site, and the state of the two
\* stand-alone specifications of pure functions
sideVars == <<webDocs, parsed, frames, rendered>>

\* ----------------------------------------------------------------- records
NoOptions ==
  [singlePage |-> FALSE, followLinks |-> FALSE, sitemapOnly |-> FALSE,
   depth |-> 0, limit |-> 0, concurrency |-> 0, format |-> "", sitemap |-> "",
   force |-> FALSE]

NoMeta ==
  [url |-> "", depth |-> 0, title |-> "", error |-> "", links |-> <<>>,
   inSitemap |-> FALSE]

NoFile == [kind |-> "absent", pages |-> <<>>, crawlDate |-> 0]

Task(u, d, hint) == [url |-> u, depth |-> d, sitemapData |-> hint]

Pending == [state |-> "pending", meta |-> NoMeta]
Null == [state |-> "null", meta |-> NoMeta]
Resolved(m) == [state |-> "meta", meta |-> m]

\* extractMetadata seen phase by phase: "pending" is the await of fetch(),
\* then the await of response.text(), then the await of the suggestions
Streaming == [state |-> "body", meta |-> NoMeta]
Suggesting(m) == [state |-> "suggest", meta |-> m]

Range(s) == {s[i] : i \in DOMAIN s}
UrlsOf(pages) == {pages[i].url : i \in DOMAIN pages}

\* a page as an earlier run left it in the cache
CachedPage(u, d) ==
  [url |-> u, depth |-> d, title |-> "Title", error |-> "", links |-> <<>>,
   inSitemap |-> TRUE]

\* cache files an earlier run of the program can have left behind
Caches ==
  { NoFile,
    [kind |-> "json", pages |-> <<CachedPage(BaseUrl, 0), CachedPage(UrlB, 1)>>,
     crawlDate |-> 0] }

\* JavaScript null where a page object should be
NullEntry ==
  [url |-> "null", depth |-> 0, title |-> "", error |-> "", links |-> <<>>,
   inSitemap |-> FALSE]

\* Cache files that are damaged.  kind is
\* "invalid": the text is not JSON (garbage, or a truncated write),
\* "nopages": JSON whose pages is missing or is not an array,
\* "json":    here with a null among the entries of pages.
CorruptCaches ==
  { [kind |-> "invalid", pages |-> <<>>, crawlDate |-> 0],
    [kind |-> "nopages", pages |-> <<>>, crawlDate |-> 0],
    [kind |-> "json", pages |-> <<CachedPage(UrlB, 1), NullEntry>>,
     crawlDate |-> 0] }

\* ------------------------------------------------------------------ main.ts
\* a JavaScript value that is a page list, or undefined
Undefined == [defined |-> FALSE, pages |-> <<>>]
Defined(pages) == [defined |-> TRUE, pages |-> pages]

\* pushToCms has not been called; it was called with value v
NotPushed == [called |-> FALSE, defined |-> FALSE, pages |-> <<>>]
PushedWith(v) == [called |-> TRUE, defined |-> v.defined, pages |-> v.pages]

\* the command-line flags after parseFlags; --force stays at its default
Flags ==
  [page : BOOLEAN, followLinks : BOOLEAN, sitemapOnly : BOOLEAN,
   depth : 0..MaxDepth, limit : 1..MaxLimit, concurrency : 1..MaxConcurrency,
   format : Formats, sitemap : {"", DefaultSitemap}, force : {FALSE}]

\* if (!sitemapUrl) { robots.txt sitemap, or <base>/sitemap.xml }
ResolveSitemapUrl(sitemap, robotsSitemap) ==
  IF sitemap = ""
    THEN (IF robotsSitemap # "" THEN robotsSitemap ELSE DefaultSitemap)
    ELSE sitemap

\* the options object main.ts hands to crawl()
MainOptions(f, robotsSitemap) ==
  LET singlePageMode == f.page
      o1 == [singlePage |-> singlePageMode,
             followLinks |-> IF f.page THEN FALSE ELSE f.followLinks,
             sitemapOnly |-> f.sitemapOnly,
             depth |-> f.depth, limit |-> f.limit,
             concurrency |-> f.concurrency, format |-> f.format,
             sitemap |-> f.sitemap, force |-> f.force]
      o2 == IF singlePageMode
              THEN [o1 EXCEPT !.sitemap = "", !.depth = 0, !.limit = 1]
              ELSE o1
  IN [o2 EXCEPT !.sitemap = ResolveSitemapUrl(o2.sitemap, robotsSitemap)]

\* ----------------------------------------------------------- utils/url.ts
\* new URL(u).href: the root path of a bare origin is spelled "/"
UrlHref(r) ==
  IF r.stem = BaseUrl /\ r.slashes = 0 THEN [r EXCEPT !.slashes = 1] ELSE r

\* .replace(/#.*$/, "")
StripFragment(r) == [r EXCEPT !.frag = FALSE]

\* .replace(/\/$/, ""): one trailing slash goes
StripSlash(r) == IF r.slashes > 0 THEN [r EXCEPT !.slashes = @ - 1] ELSE r

normalizeUrl(u) == Spell(StripSlash(StripFragment(UrlHref(ParseUrl(u)))))

\* new URL(url).hostname === baseHostname
isSameDomain(u) == ParseUrl(u).stem \in AllUrls

\* ------------------------------------------------------------- metadata.ts
\* the links of a page: every href normalized, same-domain ones kept
RECURSIVE PageLinks(_)
PageLinks(hrefs) ==
  IF hrefs = <<>> THEN <<>>
  ELSE LET normalized == normalizeUrl(Head(hrefs))
       IN (IF isSameDomain(normalized) THEN <<normalized>> ELSE <<>>)
          \o PageLinks(Tail(hrefs))

ErrorMessage(outcome) ==
  CASE outcome = "timeout" -> "The signal has been aborted"
    [] outcome = "http" -> "HTTP error! Status: 500"
    [] OTHER -> ""

\* variant: the catch block forgets the error field
extractMetadataNoError(task, outcome, links, smUrls) ==
  [url |-> task.url, depth |-> task.depth,
   title |-> IF outcome = "ok" THEN "Title" ELSE "",
   error |-> "",
   links |-> IF outcome = "ok" THEN PageLinks(links) ELSE <<>>,
   inSitemap |-> (outcome = "ok" /\ task.url \in Range(smUrls))]

\* the PageMetadata extractMetadata resolves with
extractMetadata(task, outcome, links, smUrls) ==
  IF outcome = "ok"
    THEN [url |-> task.url, depth |-> task.depth, title |-> "Title",
          error |-> "", links |-> PageLinks(links),
          inSitemap |-> (task.url \in Range(smUrls))]
    ELSE [url |-> task.url, depth |-> task.depth, title |-> "",
          error |-> ErrorMessage(outcome), links |-> <<>>,
          inSitemap |-> FALSE]

\* --------------------------------------------------------------- sitemap.ts
\* the addresses sitemap documents live at: the root, two children, and a
\* grandchild
SitemapChild1 == "https://example.com/sitemap-1.xml"
SitemapChild2 == "https://example.com/sitemap-2.xml"
SitemapGrandchild == "https://example.com/sitemap-1-1.xml"
SitemapAddrs ==
  {DefaultSitemap, SitemapChild1, SitemapChild2, SitemapGrandchild}

\* What an address serves.  kind is
\* "unreachable": fetchUrl throws (network error, timeout, HTTP status),
\* "notxml":      the text does not start with <?xml,
\* "malformed":   parseXml throws,
\* "index":       a sitemapindex, items the <loc> of its children,
\* "urlset":      a urlset, items the <loc> of its pages.
Doc(kind, items) == [kind |-> kind, items |-> items]
FailureKinds == {"unreachable", "notxml", "malformed"}
FailingDocs == {Doc(k, <<>>) : k \in FailureKinds}

RECURSIVE parseSitemap(_, _)

\* variant: each child list is put in front of what was collected so far
RECURSIVE ConcatChildrenReversed(_, _, _)
ConcatChildrenReversed(locs, web, urls) ==
  IF locs = <<>> THEN urls
  ELSE ConcatChildrenReversed(Tail(locs), web,
                              parseSitemap(Head(locs), web) \o urls)

\* the loop over the children of an index:
\* urls = urls.concat(await parseSitemap(loc))
RECURSIVE ConcatChildren(_, _, _)
ConcatChildren(locs, web, urls) ==
  IF locs = <<>> THEN urls
  ELSE ConcatChildren(Tail(locs), web, urls \o parseSitemap(Head(locs), web))

\* parseSitemap(url) against the documents web serves
parseSitemap(url, web) ==
  IF url \notin DOMAIN web THEN <<>>
  ELSE LET doc == web[url]
       IN CASE doc.kind \in FailureKinds -> <<>>
            [] doc.kind = "index" -> ConcatChildren(doc.items, web, <<>>)
            [] doc.kind = "urlset" -> doc.items

\* the resolution as a whole failed: the root document is no sitemap
ResolutionFailed(url, web) ==
  url \notin DOMAIN web \/ web[url].kind \in FailureKinds

\* a site whose only sitemap document is the root
RootOnly(doc) == [a \in {DefaultSitemap} |-> doc]

\* the sitemap documents the crawled site can serve: a urlset, or nothing
CrawlWebs ==
  {RootOnly(Doc("urlset", sm)) : sm \in Sitemaps} \cup
  {RootOnly(Doc("unreachable", <<>>))}

\* the abort timer of a task: set before fetch() is called, cleared in the
\* statement after the await of fetch()
TimerArmed(p) == p.state = "pending"

\* ------------------------------------------------------------ utils/csv.ts
\* strings of this model that hold a comma or a double quote
NeedsQuoting(v) == v \in {"Hello, World"}

\* the columns whose values are numbers (typeof value # "string")
NumberColumns == {"depth"}

\* one cell: a string with a comma or a quote is wrapped in quotes
CsvCell(header, v) ==
  IF header \notin NumberColumns /\ NeedsQuoting(v)
    THEN <<"\"", v, "\"">>
    ELSE <<v>>

\* the keys of the first row, in insertion order
CsvHeaders == <<"url", "title", "depth", "inSitemap", "error">>

\* jsonToCsv: nothing for no rows, else the header line and one line per row
jsonToCsv(data) ==
  IF Len(data) = 0 THEN <<>>
  ELSE <<CsvHeaders>> \o
       [i \in 1..Len(data) |->
          [k \in 1..Len(CsvHeaders) |->
             CsvCell(CsvHeaders[k], data[i][CsvHeaders[k]])]]

\* ----------------------------------------------------------------- crawl.ts
\* the flattened row of one page, as the CSV branch builds it
FlattenPage(page) ==
  [url |-> page.url, title |-> page.title, depth |-> page.depth,
   inSitemap |-> IF page.inSitemap THEN "yes" ELSE "no", error |-> page.error]

\* variant: the CSV file opens with a line that holds the time of writing
RenderStampedCsv(format, res, now) ==
  IF format = "csv"
    THEN [format |-> "csv",
          lines |-> <<<<now>>>> \o
                    jsonToCsv([i \in 1..Len(res) |-> FlattenPage(res[i])])]
    ELSE [format |-> format, crawlDate |-> now, pages |-> res]

\* what the output file holds after a write at time now
Render(format, res, now) ==
  IF format = "csv"
    THEN [format |-> "csv",
          lines |-> jsonToCsv([i \in 1..Len(res) |-> FlattenPage(res[i])])]
    ELSE [format |-> format, crawlDate |-> now, pages |-> res]

\* variant: the cached pages are loaded but not marked visited
CacheLoadNotVisited(file) ==
  IF file.kind = "json"
    THEN [results |-> file.pages, visited |-> {},
          processed |-> Len(file.pages)]
    ELSE [results |-> <<>>, visited |-> {}, processed |-> 0]

\* positions of pages that hold null
NullsIn(pages) == {i \in DOMAIN pages : pages[i] = NullEntry}

\* the least member of a non-empty set of numbers
Least(S) == CHOOSE x \in S : \A y \in S : x <= y

\* The cache load at the head of crawl().  results is assigned first; the
\* loop over the pages then throws at page.url of a null entry, and the
\* catch leaves what was assigned: the pages before it visited, processed
\* still 0.
CacheLoad(file) ==
  IF file.kind = "json"
    THEN IF NullsIn(file.pages) = {}
           THEN [results |-> file.pages, visited |-> UrlsOf(file.pages),
                 processed |-> Len(file.pages)]
           ELSE [results |-> file.pages,
                 visited |-> UrlsOf(SubSeq(file.pages, 1,
                                           Least(NullsIn(file.pages)) - 1)),
                 processed |-> 0]
    ELSE [results |-> <<>>, visited |-> {}, processed |-> 0]

\* variant: the seeding does not look at the limit
SeedConditionNoLimit(u, vis, proc, limit) == u \notin vis

\* the sitemap part of the seeding: one task per sitemap entry that passes
SeedCondition(u, vis, proc, limit) == u \notin vis /\ proc < limit

RECURSIVE SeedSitemap(_, _, _, _)
SeedSitemap(sm, vis, proc, limit) ==
  IF sm = <<>> THEN <<>>
  ELSE LET rest == SeedSitemap(Tail(sm), vis, proc, limit)
       IN IF SeedCondition(Head(sm), vis, proc, limit)
            THEN <<Task(Head(sm), 0, "hint")>> \o rest
            ELSE rest

\* variant: the base URL is queued in sitemap-only mode too
SeedBaseAlways(opts, vis) ==
  IF BaseUrl \notin vis THEN <<Task(BaseUrl, 0, "none")>> ELSE <<>>

\* the base URL part of the seeding
SeedBase(opts, vis) ==
  IF ~opts.sitemapOnly /\ BaseUrl \notin vis
    THEN <<Task(BaseUrl, 0, "none")>>
    ELSE <<>>

\* variant: the loop stops one page short of the limit
LoopGuardEarly(q, proc, limit) == Len(q) > 0 /\ proc + 1 < limit

\* while (queue.length > 0 && processed < options.limit)
LoopGuard(q, proc, limit) == Len(q) > 0 /\ proc < limit

\* variant: the second number, whatever the first
SecondOf(a, b) == b

Min(a, b) == IF a < b THEN a ELSE b

\* variant: the batch is taken from the back of the queue
TakeBatchFromBack(q, c) == SubSeq(q, Len(q) - Min(c, Len(q)) + 1, Len(q))

\* queue.splice(0, options.concurrency): the removed head
TakeBatch(q, c) == SubSeq(q, 1, Min(c, Len(q)))

\* variant: the batch is copied, the queue stays as it is
DropBatchNothing(q, c) == q

\* ... and what stays in the queue
DropBatch(q, c) == SubSeq(q, Min(c, Len(q)) + 1, Len(q))

\* variant: no visited check at dequeue time
ShouldSkipNever(item, vis) == FALSE

\* if (visited.has(item.url)) return null;
ShouldSkip(item, vis) == item.url \in vis

\* The synchronous head of every callback of batch.map, run in batch
\* order: skip, or mark visited, count and call extractMetadata.
RECURSIVE Dispatch(_, _)
Dispatch(b, st) ==
  IF b = <<>> THEN st
  ELSE LET item == Head(b)
       IN IF ShouldSkip(item, st.visited)
            THEN Dispatch(Tail(b),
                   [st EXCEPT !.promises = Append(@, Null)])
            ELSE Dispatch(Tail(b),
                   [st EXCEPT !.visited = @ \cup {item.url},
                              !.processed = @ + 1,
                              !.fetched[item.url] = @ + 1,
                              !.promises = Append(@, Pending)])

\* variant: links are queued whether visited or not
RECURSIVE FilterLinksVisitedToo(_, _, _)
FilterLinksVisitedToo(links, vis, d) ==
  IF links = <<>> THEN <<>>
  ELSE <<Task(Head(links), d, "none")>>
       \o FilterLinksVisitedToo(Tail(links), vis, d)

\* the links of one integrated result that go back to the queue
RECURSIVE FilterLinks(_, _, _)
FilterLinks(links, vis, d) ==
  IF links = <<>> THEN <<>>
  ELSE (IF Head(links) \notin vis THEN <<Task(Head(links), d, "none")>> ELSE <<>>)
       \o FilterLinks(Tail(links), vis, d)

\* variant: the depth test is off by one
MayFollowOffByOne(opts, result) == opts.followLinks /\ result.depth <= opts.depth

\* if (options.followLinks && result.depth < options.depth)
MayFollow(opts, result) == opts.followLinks /\ result.depth < opts.depth

LinksToEnqueue(opts, result, vis) ==
  IF MayFollow(opts, result)
    THEN FilterLinks(result.links, vis, result.depth + 1)
    ELSE <<>>

RECURSIVE EnqueueAll(_, _, _)
EnqueueAll(opts, ps, vis) ==
  IF ps = <<>> THEN <<>>
  ELSE (IF Head(ps).state = "meta"
          THEN LinksToEnqueue(opts, Head(ps).meta, vis) ELSE <<>>)
       \o EnqueueAll(opts, Tail(ps), vis)

\* the non-null entries of batchResults, in batch order
RECURSIVE MetasOf(_)
MetasOf(ps) ==
  IF ps = <<>> THEN <<>>
  ELSE (IF Head(ps).state = "meta" THEN <<Head(ps).meta>> ELSE <<>>)
       \o MetasOf(Tail(ps))

\* variant: Promise.all is taken to return once the first task has settled
AllSettledFirstOnly(ps) == ps = <<>> \/ ps[1].state \in {"null", "meta"}

\* await Promise.all(promises): every promise is fulfilled
AllSettled(ps) == \A i \in DOMAIN ps : ps[i].state \in {"null", "meta"}

\* variant: a result is put in front of the collection
PushResultFront(res, m) == <<m>> \o res

\* results.push(result)
PushResult(res, m) == Append(res, m)

\* variant: the cache is serialized before the result is pushed
CacheContentStale(res, now) ==
  [kind |-> "json", pages |-> SubSeq(res, 1, Len(res) - 1), crawlDate |-> now]

\* the content written to the cache file after one integrated result
CacheContent(res, now) == [kind |-> "json", pages |-> res, crawlDate |-> now]

\* the content written to the output file after the integration loop
\* results.map(page => ({url: page.url, ...})) of the CSV branch and the
\* pages.map of generateHtmlReport throw a TypeError at a null entry, which
\* nothing in crawl() or main.ts catches
OutputThrows(format, res) == format # "json" /\ NullsIn(res) # {}

\* variant: the output is rendered from the collection of the batch before
OutputContentLagging(format, res, now) ==
  [kind |-> format, pages |-> SubSeq(res, 1, Len(res) - 1),
   text |-> Render(format, SubSeq(res, 1, Len(res) - 1), now)]

\* pages is the collection rendered, text what the file holds
OutputContent(format, res, now) ==
  [kind |-> format, pages |-> res, text |-> Render(format, res, now)]

\* -------------------------------------------------------------------- Init
\* the program at position start, in a directory holding one of files
InitAt(start, files, webs, clocks) ==
  /\ pc = start
  /\ options = NoOptions
  /\ cacheAtStart \in files
  /\ cacheFile = cacheAtStart
  /\ outFile = NoFile
  /\ sitemapCalls = 0
  /\ sitemapUrls = <<>>
  /\ visited = {}
  /\ queue = <<>>
  /\ results = <<>>
  /\ processed = 0
  /\ batch = <<>>
  /\ promises = <<>>
  /\ idx = 0
  /\ fetched = [u \in SiteUrls |-> 0]
  /\ failed = {}
  /\ clock \in (IF cacheAtStart = NoFile THEN {0} ELSE clocks)
  /\ reportCalls = 0
  /\ sitemapFailed = FALSE
  /\ cmsPages = NotPushed
  /\ enqueued = <<>>
  /\ lastFetch = 0
  /\ webDocs \in webs
  /\ parsed = <<>>
  /\ frames = <<>>
  /\ rendered = <<>>

\* crawl.ts never reads the clock but to stamp what it writes: its runs
\* start on a cache written 23 hours ago, if on any
Init == InitAt("main", Caches, CrawlWebs, {StalenessWindow - 1})

\* ----------------------------------------------------------------- actions
\* the positions at which a controller waits for the batch
AwaitingPcs == {"await", "legacyAwait"}

\* the phases of extractMetadata in which it awaits the remote side
InFlightPhases == {"pending", "body", "suggest"}

\* main.ts: flags, options, sitemap URL; then crawl() is entered
Main ==
  /\ pc = "main"
  /\ \E f \in Flags, robotsSitemap \in {"", DefaultSitemap} :
       options' = MainOptions(f, robotsSitemap)
  /\ pc' = "cache"
  /\ UNCHANGED <<cacheAtStart, cacheFile, outFile, sitemapCalls, sitemapUrls,
                 visited, queue, results, processed, batch, promises, idx,
                 fetched, failed,
                 clock, reportCalls, sitemapFailed, cmsPages, sideVars,
                 enqueued, lastFetch>>

\* crawl(): load the cache
LoadCache ==
  /\ pc = "cache"
  /\ LET c == CacheLoad(cacheFile)
     IN /\ results' = c.results
        /\ visited' = c.visited
        /\ processed' = c.processed
  /\ pc' = "sitemap"
  /\ UNCHANGED <<options, cacheAtStart, cacheFile, outFile, sitemapCalls,
                 sitemapUrls, queue, batch, promises, idx, fetched, failed,
                 clock, reportCalls, sitemapFailed, cmsPages, sideVars,
                 enqueued, lastFetch>>

\* crawl(): await parseSitemap(...), then seed the queue
SeedQueue ==
  /\ pc = "sitemap"
  /\ LET sm == parseSitemap(options.sitemap, webDocs)
         q1 == SeedSitemap(sm, visited, processed, options.limit)
     IN /\ sitemapUrls' = sm
        /\ sitemapFailed' = ResolutionFailed(options.sitemap, webDocs)
        /\ queue' = q1 \o SeedBase(options, visited)
  /\ enqueued' = enqueued \o queue'
  /\ sitemapCalls' = sitemapCalls + 1
  /\ pc' = "loop"
  /\ UNCHANGED <<options, cacheAtStart, cacheFile, outFile, visited, results,
                 processed, batch, promises, idx, fetched, failed,
                 clock, reportCalls, cmsPages, sideVars,
                 lastFetch>>

\* one loop iteration begins: splice the batch, run the callbacks' heads
StartBatch ==
  /\ pc = "loop"
  /\ LoopGuard(queue, processed, options.limit)
  /\ LET b == TakeBatch(queue, options.concurrency)
         st == Dispatch(b, [visited |-> visited, processed |-> processed,
                            fetched |-> fetched, promises |-> <<>>])
     IN /\ batch' = b
        /\ queue' = DropBatch(queue, options.concurrency)
        /\ visited' = st.visited
        /\ processed' = st.processed
        /\ fetched' = st.fetched
        /\ promises' = st.promises
        /\ lastFetch' = IF st.fetched # fetched THEN clock ELSE lastFetch
  /\ idx' = 0
  /\ pc' = "await"
  /\ UNCHANGED <<options, cacheAtStart, cacheFile, outFile, sitemapCalls,
                 sitemapUrls, results, failed,
                 clock, reportCalls, sitemapFailed, cmsPages, sideVars,
                 enqueued>>

\* extractMetadata of task i resolves with a PageMetadata
ExtractReturns(i) ==
  /\ pc \in AwaitingPcs
  /\ i \in DOMAIN promises
  /\ promises[i].state = "pending"
  /\ \E outcome \in FetchOutcomes, links \in LinkLists :
       /\ outcome # "ok" => links = <<>>
       /\ promises' = [promises EXCEPT ![i] =
            Resolved(extractMetadata(batch[i], outcome, links, sitemapUrls))]
       /\ failed' = IF outcome = "ok" THEN failed ELSE failed \cup {batch[i].url}
  /\ UNCHANGED <<pc, options, cacheAtStart, cacheFile, outFile, sitemapCalls,
                 sitemapUrls, visited, queue, results, processed, batch, idx,
                 fetched,
                 clock, reportCalls, sitemapFailed, cmsPages, sideVars,
                 enqueued, lastFetch>>

\* extractMetadata of task i rejects: the callback's catch returns null
ExtractThrows(i) ==
  /\ pc \in AwaitingPcs
  /\ i \in DOMAIN promises
  /\ promises[i].state = "pending"
  /\ promises' = [promises EXCEPT ![i] = Null]
  /\ UNCHANGED <<pc, options, cacheAtStart, cacheFile, outFile, sitemapCalls,
                 sitemapUrls, visited, queue, results, processed, batch, idx,
                 fetched, failed,
                 clock, reportCalls, sitemapFailed, cmsPages, sideVars,
                 enqueued, lastFetch>>

\* await Promise.all(promises) returns
AwaitAll ==
  /\ pc = "await"
  /\ AllSettled(promises)
  /\ idx' = 1
  /\ pc' = "integrate"
  /\ UNCHANGED <<options, cacheAtStart, cacheFile, outFile, sitemapCalls,
                 sitemapUrls, visited, queue, results, processed, batch,
                 promises, fetched, failed,
                 clock, reportCalls, sitemapFailed, cmsPages, sideVars,
                 enqueued, lastFetch>>

\* one iteration of: for (const result of batchResults) { push; write cache }
IntegrateResult ==
  /\ pc = "integrate"
  /\ idx <= Len(promises)
  /\ IF promises[idx].state = "meta"
       THEN /\ results' = PushResult(results, promises[idx].meta)
            /\ cacheFile' = CacheContent(results', clock)
       ELSE UNCHANGED <<results, cacheFile>>
  /\ idx' = idx + 1
  /\ UNCHANGED <<pc, options, cacheAtStart, outFile, sitemapCalls, sitemapUrls,
                 visited, queue, processed, batch, promises, fetched, failed,
                 clock, reportCalls, sitemapFailed, cmsPages, sideVars,
                 enqueued, lastFetch>>

\* after the integration loop: rewrite the output file
WriteOutput ==
  /\ pc = "integrate"
  /\ idx > Len(promises)
  /\ IF OutputThrows(options.format, results)
       THEN pc' = "crashed" /\ UNCHANGED outFile
       ELSE /\ outFile' = OutputContent(options.format, results, clock)
            /\ pc' = "links"
  /\ UNCHANGED <<options, cacheAtStart, cacheFile, sitemapCalls, sitemapUrls,
                 visited, queue, results, processed, batch, promises, idx,
                 fetched, failed,
                 clock, reportCalls, sitemapFailed, cmsPages, sideVars,
                 enqueued, lastFetch>>

\* the second loop over batchResults: enqueue the discovered links
EnqueueLinks ==
  /\ pc = "links"
  /\ queue' = queue \o EnqueueAll(options, promises, visited)
  /\ enqueued' = enqueued \o EnqueueAll(options, promises, visited)
  /\ pc' = "loop"
  /\ UNCHANGED <<options, cacheAtStart, cacheFile, outFile, sitemapCalls,
                 sitemapUrls, visited, results, processed, batch, promises,
                 idx, fetched, failed,
                 clock, reportCalls, sitemapFailed, cmsPages, sideVars,
                 lastFetch>>

\* the loop condition fails: generateReport (an empty stub) and return
Finish ==
  /\ pc = "loop"
  /\ ~LoopGuard(queue, processed, options.limit)
  /\ reportCalls' = reportCalls + 1
  /\ pc' = "done"
  /\ UNCHANGED <<options, cacheAtStart, cacheFile, outFile, sitemapCalls,
                 sitemapUrls, visited, queue, results, processed, batch,
                 promises, idx, fetched, failed,
                 clock, sitemapFailed, cmsPages, sideVars,
                 enqueued, lastFetch>>

Controller ==
  \/ Main
  \/ LoadCache
  \/ SeedQueue
  \/ StartBatch
  \/ AwaitAll
  \/ IntegrateResult
  \/ WriteOutput
  \/ EnqueueLinks
  \/ Finish

\* the program with the collaborator of metadata.ts, which never rejects
Next ==
  \/ Controller
  \/ \E i \in DOMAIN promises : ExtractReturns(i)

Spec == Init /\ [][Next]_vars

\* ---- extractMetadata phase by phase, in place of ExtractReturns
\* fetch() resolves: the timer is cleared; a status that is not ok throws
\* into the catch block, else response.text() is awaited
HeadersArrive(i) ==
  /\ pc \in AwaitingPcs
  /\ i \in DOMAIN promises
  /\ promises[i].state = "pending"
  /\ \E ok \in BOOLEAN :
       IF ok
         THEN /\ promises' = [promises EXCEPT ![i] = Streaming]
              /\ UNCHANGED failed
         ELSE /\ promises' = [promises EXCEPT ![i] =
                   Resolved(extractMetadata(batch[i], "http", <<>>, sitemapUrls))]
              /\ failed' = failed \cup {batch[i].url}
  /\ UNCHANGED <<pc, options, cacheAtStart, cacheFile, outFile, sitemapCalls,
                 sitemapUrls, visited, queue, results, processed, batch, idx,
                 fetched, clock, reportCalls, sitemapFailed, cmsPages,
                 sideVars,
                 enqueued, lastFetch>>

\* the timer fires while it is armed: abort, fetch() rejects, error result
TimeoutFires(i) ==
  /\ pc \in AwaitingPcs
  /\ i \in DOMAIN promises
  /\ promises[i].state \in InFlightPhases
  /\ TimerArmed(promises[i])
  /\ promises' = [promises EXCEPT ![i] =
       Resolved(extractMetadata(batch[i], "timeout", <<>>, sitemapUrls))]
  /\ failed' = failed \cup {batch[i].url}
  /\ UNCHANGED <<pc, options, cacheAtStart, cacheFile, outFile, sitemapCalls,
                 sitemapUrls, visited, queue, results, processed, batch, idx,
                 fetched, clock, reportCalls, sitemapFailed, cmsPages,
                 sideVars,
                 enqueued, lastFetch>>

\* response.text() resolves: the page is parsed; a page with a weak title,
\* description or keywords goes on to the suggestion service
BodyArrives(i) ==
  /\ pc \in AwaitingPcs
  /\ i \in DOMAIN promises
  /\ promises[i].state = "body"
  /\ \E links \in LinkLists, needsSuggestions \in BOOLEAN :
       LET m == extractMetadata(batch[i], "ok", links, sitemapUrls)
       IN promises' = [promises EXCEPT ![i] =
            IF needsSuggestions THEN Suggesting(m) ELSE Resolved(m)]
  /\ UNCHANGED <<pc, options, cacheAtStart, cacheFile, outFile, sitemapCalls,
                 sitemapUrls, visited, queue, results, processed, batch, idx,
                 fetched, failed, clock, reportCalls, sitemapFailed, cmsPages,
                 sideVars,
                 enqueued, lastFetch>>

\* suggestTitleDescriptionKeywords resolves (with suggestions or with {})
SuggestionsArrive(i) ==
  /\ pc \in AwaitingPcs
  /\ i \in DOMAIN promises
  /\ promises[i].state = "suggest"
  /\ promises' = [promises EXCEPT ![i] = Resolved(promises[i].meta)]
  /\ UNCHANGED <<pc, options, cacheAtStart, cacheFile, outFile, sitemapCalls,
                 sitemapUrls, visited, queue, results, processed, batch, idx,
                 fetched, failed, clock, reportCalls, sitemapFailed, cmsPages,
                 sideVars,
                 enqueued, lastFetch>>

\* what the program itself does in a task: the timer
TaskSteps == \E i \in DOMAIN promises : TimeoutFires(i)

\* what the remote side does, if it does anything
RemoteSteps ==
  \/ \E i \in DOMAIN promises : HeadersArrive(i)
  \/ \E i \in DOMAIN promises : BodyArrives(i)
  \/ \E i \in DOMAIN promises : SuggestionsArrive(i)

NextPhases ==
  \/ Controller
  \/ TaskSteps
  \/ RemoteSteps

SpecPhases == Init /\ [][NextPhases]_vars

\* The event loop runs the controller and fires timers; nothing obliges the
\* remote side to answer.
FairSpecPhases ==
  /\ SpecPhases
  /\ WF_vars(Controller)
  /\ WF_vars(TaskSteps)

\* the program on a site whose sitemap spells its pages in other ways
SpelledWebs ==
  {RootOnly(Doc("urlset", sm)) :
     sm \in SeqsUpTo({UrlASlash, UrlAFragment, UrlB}, MaxSitemapLen)}

InitSpelled == InitAt("main", Caches, SpelledWebs, Clocks)

SpecSpelled == InitSpelled /\ [][Next]_vars

\* ---- main.ts after crawl() has returned
\* what "await crawl(...)" evaluates to: crawl() has no return statement
CrawlReturnValue(res) == Undefined

\* --push-cms is set (the flag is read here for the first time): the config
\* is read and pushToCms(cmsOptions, pages) is called
PushToCms ==
  /\ pc = "done"
  /\ cmsPages' = PushedWith(CrawlReturnValue(results))
  /\ pc' = "pushed"
  /\ UNCHANGED <<options, cacheAtStart, cacheFile, outFile, sitemapCalls,
                 sitemapUrls, visited, queue, results, processed, batch,
                 promises, idx, fetched, failed, clock, reportCalls,
                 sitemapFailed, sideVars,
                 enqueued, lastFetch>>

\* --push-cms is not set: main.ts ends
MainEnds ==
  /\ pc = "done"
  /\ pc' = "ended"
  /\ UNCHANGED <<options, cacheAtStart, cacheFile, outFile, sitemapCalls,
                 sitemapUrls, visited, queue, results, processed, batch,
                 promises, idx, fetched, failed, clock, reportCalls,
                 sitemapFailed, cmsPages, sideVars,
                 enqueued, lastFetch>>

NextCms ==
  \/ Next
  \/ PushToCms
  \/ MainEnds

SpecCms == Init /\ [][NextCms]_vars

\* ---- main.ts started with --force
ForcedFlags == {[f EXCEPT !.force = TRUE] : f \in Flags}

MainForce ==
  /\ pc = "main"
  /\ \E f \in ForcedFlags, robotsSitemap \in {"", DefaultSitemap} :
       options' = MainOptions(f, robotsSitemap)
  /\ pc' = "cache"
  /\ UNCHANGED <<cacheAtStart, cacheFile, outFile, sitemapCalls, sitemapUrls,
                 visited, queue, results, processed, batch, promises, idx,
                 fetched, failed,
                 clock, reportCalls, sitemapFailed, cmsPages, sideVars,
                 enqueued, lastFetch>>

\* the program started on a damaged cache file
InitCorrupt == InitAt("main", CorruptCaches, CrawlWebs, Clocks)

SpecCorrupt == InitCorrupt /\ [][Next]_vars

\* the controller against any collaborator of its interface, which may reject
NextThrow ==
  \/ Next
  \/ \E i \in DOMAIN promises : ExtractThrows(i)

SpecThrow == Init /\ [][NextThrow]_vars

\* ---------------------------------------------- report.ts, the stand-alone
\* script: its own flags, a cache check with a staleness window, the base
\* URL queued ahead of the sitemap, and one report at the end
LegacyFlags ==
  [followLinks : BOOLEAN, sitemapOnly : BOOLEAN, depth : 0..MaxDepth,
   limit : 1..MaxLimit, concurrency : 1..MaxConcurrency, format : Formats,
   sitemap : {"", DefaultSitemap}, force : BOOLEAN]

LegacyOptions(f, robotsSitemap) ==
  [singlePage |-> FALSE, followLinks |-> f.followLinks,
   sitemapOnly |-> f.sitemapOnly, depth |-> f.depth, limit |-> f.limit,
   concurrency |-> f.concurrency, format |-> f.format,
   sitemap |-> ResolveSitemapUrl(f.sitemap, robotsSitemap), force |-> f.force]

\* variant: the cache is taken as fresh whatever its age
CacheIsFreshAnyAge(file, now) == file.kind = "json"

\* cache.crawlDate && Date.now() - new Date(cache.crawlDate) < 24 h
CacheIsFresh(file, now) ==
  file.kind = "json" /\ now - file.crawlDate < StalenessWindow

\* variant: the cache check does not look at --force
UseCacheWhateverForce(opts, file, now) == CacheIsFresh(file, now)

\* if (!options.force) { ... if (fresh) { use the cache } }
UseCache(opts, file, now) == ~opts.force /\ CacheIsFresh(file, now)

\* variant: the report carries no date of its own
ReportCacheUndated(res, now) == [kind |-> "json", pages |-> res, crawlDate |-> 0]

\* generateReport: the report object, crawlDate: new Date(), written as
\* the cache file
ReportCache(res, now) == CacheContent(res, now)

\* the sitemap list the short-circuit rebuilds from the cached pages
RECURSIVE CachedSitemapUrls(_)
CachedSitemapUrls(pages) ==
  IF pages = <<>> THEN <<>>
  ELSE (IF Head(pages).inSitemap THEN <<Head(pages).url>> ELSE <<>>)
       \o CachedSitemapUrls(Tail(pages))

InitLegacy == InitAt("legacy", Caches, CrawlWebs, Clocks)

\* flags, options, sitemap URL
LegacyMain ==
  /\ pc = "legacy"
  /\ \E f \in LegacyFlags, robotsSitemap \in {"", DefaultSitemap} :
       options' = LegacyOptions(f, robotsSitemap)
  /\ pc' = "legacyCache"
  /\ UNCHANGED <<cacheAtStart, cacheFile, outFile, sitemapCalls, sitemapUrls,
                 visited, queue, results, processed, batch, promises, idx,
                 fetched, failed, clock, reportCalls, sitemapFailed, cmsPages,
                 sideVars,
                 enqueued, lastFetch>>

\* the cache check finds a fresh cache: load it, generateReport(), exit
LegacyShortCircuit ==
  /\ pc = "legacyCache"
  /\ UseCache(options, cacheFile, clock)
  /\ results' = results \o cacheFile.pages
  /\ sitemapUrls' = CachedSitemapUrls(cacheFile.pages)
  /\ reportCalls' = reportCalls + 1
  /\ cacheFile' = ReportCache(results', clock)
  /\ outFile' = OutputContent(options.format, results', clock)
  /\ pc' = "exit"
  /\ UNCHANGED <<options, cacheAtStart, sitemapCalls, visited, queue,
                 processed, batch, promises, idx, fetched, failed, clock,
                 sitemapFailed, cmsPages, sideVars,
                 enqueued, lastFetch>>

\* no usable cache: nothing is loaded; the base URL opens the queue
LegacyNoCache ==
  /\ pc = "legacyCache"
  /\ ~UseCache(options, cacheFile, clock)
  /\ queue' = IF options.sitemapOnly THEN queue
                ELSE Append(queue, Task(BaseUrl, 0, "none"))
  /\ enqueued' = IF options.sitemapOnly THEN enqueued
                   ELSE Append(enqueued, Task(BaseUrl, 0, "none"))
  /\ pc' = "legacySitemap"
  /\ UNCHANGED <<options, cacheAtStart, cacheFile, outFile, sitemapCalls,
                 sitemapUrls, visited, results, processed, batch, promises,
                 idx, fetched, failed, clock, reportCalls, sitemapFailed,
                 cmsPages, sideVars,
                 lastFetch>>

\* crawl(): parse the sitemap and queue its URLs; a sitemap-only run with
\* an empty sitemap leaves through Deno.exit(0)
LegacySeedQueue ==
  /\ pc = "legacySitemap"
  /\ LET sm == parseSitemap(options.sitemap, webDocs)
     IN /\ sitemapUrls' = sm
        /\ sitemapFailed' = ResolutionFailed(options.sitemap, webDocs)
        /\ queue' = queue \o
                      SeedSitemap(sm, visited, processed, options.limit)
        /\ enqueued' = enqueued \o
                         SeedSitemap(sm, visited, processed, options.limit)
        /\ pc' = IF Len(sm) = 0 /\ options.sitemapOnly
                   THEN "exit" ELSE "legacyLoop"
  /\ sitemapCalls' = sitemapCalls + 1
  /\ UNCHANGED <<options, cacheAtStart, cacheFile, outFile, visited, results,
                 processed, batch, promises, idx, fetched, failed, clock,
                 reportCalls, cmsPages, sideVars,
                 lastFetch>>

\* one loop iteration begins
LegacyStartBatch ==
  /\ pc = "legacyLoop"
  /\ LoopGuard(queue, processed, options.limit)
  /\ LET b == TakeBatch(queue, options.concurrency)
         st == Dispatch(b, [visited |-> visited, processed |-> processed,
                            fetched |-> fetched, promises |-> <<>>])
     IN /\ batch' = b
        /\ queue' = DropBatch(queue, options.concurrency)
        /\ visited' = st.visited
        /\ processed' = st.processed
        /\ fetched' = st.fetched
        /\ promises' = st.promises
        /\ lastFetch' = IF st.fetched # fetched THEN clock ELSE lastFetch
  /\ pc' = "legacyAwait"
  /\ UNCHANGED <<options, cacheAtStart, cacheFile, outFile, sitemapCalls,
                 sitemapUrls, results, idx, failed, clock, reportCalls,
                 sitemapFailed, cmsPages, sideVars,
                 enqueued>>

\* Promise.all returns: push every result and queue its links
LegacyIntegrate ==
  /\ pc = "legacyAwait"
  /\ AllSettled(promises)
  /\ results' = results \o MetasOf(promises)
  /\ queue' = queue \o EnqueueAll(options, promises, visited)
  /\ enqueued' = enqueued \o EnqueueAll(options, promises, visited)
  /\ pc' = "legacyLoop"
  /\ UNCHANGED <<options, cacheAtStart, cacheFile, outFile, sitemapCalls,
                 sitemapUrls, visited, processed, batch, promises, idx,
                 fetched, failed, clock, reportCalls, sitemapFailed, cmsPages,
                 sideVars,
                 lastFetch>>

\* the loop condition fails: generateReport() writes cache and output
LegacyFinish ==
  /\ pc = "legacyLoop"
  /\ ~LoopGuard(queue, processed, options.limit)
  /\ reportCalls' = reportCalls + 1
  /\ cacheFile' = ReportCache(results, clock)
  /\ outFile' = OutputContent(options.format, results, clock)
  /\ pc' = "exit"
  /\ UNCHANGED <<options, cacheAtStart, sitemapCalls, sitemapUrls, visited,
                 queue, results, processed, batch, promises, idx, fetched,
                 failed, clock, sitemapFailed, cmsPages, sideVars,
                 enqueued, lastFetch>>

NextLegacy ==
  \/ LegacyMain
  \/ LegacyShortCircuit
  \/ LegacyNoCache
  \/ LegacySeedQueue
  \/ LegacyStartBatch
  \/ \E i \in DOMAIN promises : ExtractReturns(i)
  \/ LegacyIntegrate
  \/ LegacyFinish

SpecLegacy == InitLegacy /\ [][NextLegacy]_vars

\* ---- the script run again and again in one directory
MaxRuns == 3

\* the site of these runs, and the cache their first run finds
RunsWebs == {RootOnly(Doc("urlset", <<UrlA>>))}
RunsCaches == Caches \ {NoFile}

InitRuns == InitAt("legacy", RunsCaches, RunsWebs, Clocks)

\* the flags of the runs after the first: the defaults, any --format, and
\* no --force
AgainFlags ==
  {f \in LegacyFlags :
     /\ ~f.force /\ f.followLinks /\ ~f.sitemapOnly /\ f.sitemap = ""
     /\ f.depth = MaxDepth /\ f.limit = MaxLimit
     /\ f.concurrency = MaxConcurrency}

\* The script has exited and is started again one hour before the
\* staleness window has passed.  The files stay as the last run left
\* them; every variable of the script starts anew.
RunAgain ==
  /\ pc = "exit"
  /\ clock + (StalenessWindow - 1) <= MaxRuns * StalenessWindow
  /\ clock' = clock + (StalenessWindow - 1)
  /\ cacheAtStart' = cacheFile
  /\ options' = NoOptions
  /\ sitemapCalls' = 0
  /\ sitemapUrls' = <<>>
  /\ visited' = {}
  /\ queue' = <<>>
  /\ results' = <<>>
  /\ processed' = 0
  /\ batch' = <<>>
  /\ promises' = <<>>
  /\ idx' = 0
  /\ fetched' = [u \in SiteUrls |-> 0]
  /\ failed' = {}
  /\ reportCalls' = 0
  /\ sitemapFailed' = FALSE
  /\ enqueued' = <<>>
  /\ pc' = "legacyAgain"
  /\ UNCHANGED <<cacheFile, outFile, cmsPages, lastFetch, sideVars>>

\* flags, options, sitemap URL of a run after the first
LegacyMainAgain ==
  /\ pc = "legacyAgain"
  /\ \E f \in AgainFlags, robotsSitemap \in {"", DefaultSitemap} :
       options' = LegacyOptions(f, robotsSitemap)
  /\ pc' = "legacyCache"
  /\ UNCHANGED <<cacheAtStart, cacheFile, outFile, sitemapCalls, sitemapUrls,
                 visited, queue, results, processed, batch, promises, idx,
                 fetched, failed, clock, reportCalls, sitemapFailed, cmsPages,
                 sideVars, enqueued, lastFetch>>

NextRuns ==
  \/ NextLegacy
  \/ RunAgain
  \/ LegacyMainAgain

SpecRuns == InitRuns /\ [][NextRuns]_vars

\* either program: the module crawl.ts behind main.ts, or the script, on a
\* cache of either age
NextBoth == Next \/ NextLegacy

InitBoth == InitAt("main", Caches, CrawlWebs, Clocks) \/ InitLegacy

SpecBoth == InitBoth /\ [][NextBoth]_vars

\* either program, with --force or without it
NextForce ==
  \/ NextBoth
  \/ MainForce

SpecForce == InitBoth /\ [][NextForce]_vars

\* ---- main.ts started with --follow-links, and with --depth and --limit
\* above the number of pages of the site
DeepDepth == Cardinality(AllUrls) + 1

DeepFlags ==
  {[f EXCEPT !.page = FALSE, !.followLinks = TRUE, !.depth = DeepDepth,
             !.limit = DeepDepth] : f \in Flags}

MainDeep ==
  /\ pc = "main"
  /\ \E f \in DeepFlags, robotsSitemap \in {"", DefaultSitemap} :
       options' = MainOptions(f, robotsSitemap)
  /\ pc' = "cache"
  /\ UNCHANGED <<cacheAtStart, cacheFile, outFile, sitemapCalls, sitemapUrls,
                 visited, queue, results, processed, batch, promises, idx,
                 fetched, failed,
                 clock, reportCalls, sitemapFailed, cmsPages, sideVars,
                 enqueued, lastFetch>>

\* either program, main.ts also on the deep options
NextDeep ==
  \/ NextBoth
  \/ MainDeep

InitDeep == Init \/ InitLegacy

SpecDeep == InitDeep /\ [][NextDeep]_vars

\* The event loop runs the controller of either program, and every call of
\* extractMetadata settles.
FairSpecDeep ==
  /\ SpecDeep
  /\ WF_vars(Controller)
  /\ WF_vars(NextLegacy)
  /\ \A i \in 1..(MaxConcurrency + 1) : WF_vars(ExtractReturns(i))

\* -------------------------------------------- sitemap.ts, taken on its own
\* page lists a urlset can hold
UrlLists == {<<>>, <<UrlA, UrlB>>, <<UrlB, BaseUrl>>}

\* the grandchild serves a urlset or fails; a child may also be an index of
\* the grandchild; the root is an index of the children
LeafDocs == FailingDocs \cup {Doc("urlset", l) : l \in UrlLists}
ChildDocs == LeafDocs \cup {Doc("index", <<SitemapGrandchild>>)}
RootDocs ==
  { Doc("index", <<SitemapChild1, SitemapChild2>>),
    Doc("index", <<SitemapChild2, SitemapChild1>>),
    Doc("index", <<SitemapChild1, SitemapGrandchild, SitemapChild2>>) }

SitemapWebs ==
  { [a \in SitemapAddrs |->
       CASE a = DefaultSitemap -> r
         [] a = SitemapChild1 -> c1
         [] a = SitemapChild2 -> c2
         [] a = SitemapGrandchild -> g] :
    r \in RootDocs, c1 \in ChildDocs, c2 \in ChildDocs, g \in LeafDocs }

InitSitemap ==
  /\ pc = "resolve"
  /\ webDocs \in SitemapWebs
  /\ parsed = <<>>
  /\ frames = <<>>
  /\ options = NoOptions
  /\ cacheAtStart = NoFile
  /\ cacheFile = NoFile
  /\ outFile = NoFile
  /\ sitemapCalls = 0
  /\ sitemapUrls = <<>>
  /\ visited = {}
  /\ queue = <<>>
  /\ results = <<>>
  /\ processed = 0
  /\ batch = <<>>
  /\ promises = <<>>
  /\ idx = 0
  /\ fetched = [u \in SiteUrls |-> 0]
  /\ failed = {}
  /\ clock = 0
  /\ reportCalls = 0
  /\ sitemapFailed = FALSE
  /\ cmsPages = NotPushed
  /\ enqueued = <<>>
  /\ lastFetch = 0
  /\ rendered = <<>>

\* parseSitemap(<root>) is called and returns
ResolveSitemap ==
  /\ pc = "resolve"
  /\ parsed' = parseSitemap(DefaultSitemap, webDocs)
  /\ sitemapCalls' = sitemapCalls + 1
  /\ pc' = "resolved"
  /\ UNCHANGED <<options, cacheAtStart, cacheFile, outFile, sitemapUrls,
                 visited, queue, results, processed, batch, promises, idx,
                 fetched, failed, clock, reportCalls, sitemapFailed, cmsPages,
                 webDocs, frames, rendered,
                 enqueued, lastFetch>>

NextSitemap == ResolveSitemap

SpecSitemap == InitSitemap /\ [][NextSitemap]_vars

\* ---- parseSitemap call by call
\* Every invocation awaits a fetch and, for an index, the invocations of
\* its children one after the other, so the invocations that are pending
\* form a chain.  A frame is one of them: its address, the child it will
\* call next, and its urls so far.
Frame(url) == [url |-> url, next |-> 1, urls |-> <<>>]

\* what fetchUrl and parseXml make of an address
DocAt(url, web) ==
  IF url \in DOMAIN web THEN web[url] ELSE Doc("unreachable", <<>>)

\* the loop over the children of an index has a child left
HasChildLeft(f, web) ==
  /\ DocAt(f.url, web).kind = "index"
  /\ f.next <= Len(DocAt(f.url, web).items)

\* what the invocation returns: [] from the catch and for text that is no
\* XML, the pages of a urlset, the collected urls of an index
ReturnValue(f, web) ==
  CASE DocAt(f.url, web).kind \in FailureKinds -> <<>>
    [] DocAt(f.url, web).kind = "urlset" -> DocAt(f.url, web).items
    [] DocAt(f.url, web).kind = "index" -> f.urls

\* sites whose sitemap indexes lead back to themselves: the root lists
\* itself; root, first child and second child list each other in a ring;
\* the root lists a urlset and a child that lists the root
CyclicWebs ==
  { [a \in SitemapAddrs |->
       IF a = DefaultSitemap THEN Doc("index", <<DefaultSitemap>>)
       ELSE Doc("urlset", <<>>)],
    [a \in SitemapAddrs |->
       CASE a = DefaultSitemap -> Doc("index", <<SitemapChild1>>)
         [] a = SitemapChild1 -> Doc("index", <<SitemapChild2>>)
         [] a = SitemapChild2 -> Doc("index", <<DefaultSitemap>>)
         [] a = SitemapGrandchild -> Doc("urlset", <<>>)],
    [a \in SitemapAddrs |->
       CASE a = DefaultSitemap -> Doc("index", <<SitemapChild1, SitemapChild2>>)
         [] a = SitemapChild1 -> Doc("urlset", <<UrlA, UrlB>>)
         [] a = SitemapChild2 -> Doc("index", <<DefaultSitemap>>)
         [] a = SitemapGrandchild -> Doc("urlset", <<>>)] }

InitCalls ==
  /\ pc = "parsing"
  /\ webDocs \in SitemapWebs \cup CyclicWebs
  /\ frames = <<Frame(DefaultSitemap)>>
  /\ parsed = <<>>
  /\ options = NoOptions
  /\ cacheAtStart = NoFile
  /\ cacheFile = NoFile
  /\ outFile = NoFile
  /\ sitemapCalls = 1
  /\ sitemapUrls = <<>>
  /\ visited = {}
  /\ queue = <<>>
  /\ results = <<>>
  /\ processed = 0
  /\ batch = <<>>
  /\ promises = <<>>
  /\ idx = 0
  /\ fetched = [u \in SiteUrls |-> 0]
  /\ failed = {}
  /\ clock = 0
  /\ reportCalls = 0
  /\ sitemapFailed = FALSE
  /\ cmsPages = NotPushed
  /\ enqueued = <<>>
  /\ lastFetch = 0
  /\ rendered = <<>>

\* await parseSitemap(loc): the innermost invocation calls its next child.
\* The memory of the process holds MaxPendingCalls pending invocations; the
\* process dies on the next one.
CallChild ==
  /\ pc = "parsing"
  /\ LET top == frames[Len(frames)]
     IN /\ HasChildLeft(top, webDocs)
        /\ IF Len(frames) < MaxPendingCalls
             THEN /\ frames' = Append(frames,
                       Frame(DocAt(top.url, webDocs).items[top.next]))
                  /\ sitemapCalls' = sitemapCalls + 1
                  /\ pc' = pc
             ELSE /\ pc' = "exhausted"
                  /\ UNCHANGED <<frames, sitemapCalls>>
  /\ UNCHANGED <<options, cacheAtStart, cacheFile, outFile, sitemapUrls,
                 visited, queue, results, processed, batch, promises, idx,
                 fetched, failed, clock, reportCalls, sitemapFailed, cmsPages,
                 enqueued, webDocs, parsed, rendered,
                 lastFetch>>

\* the innermost invocation returns: urls = urls.concat(childUrls) in its
\* caller, or the result of the resolution when it is the outermost
ReturnUrls ==
  /\ pc = "parsing"
  /\ LET n == Len(frames)
         top == frames[n]
     IN /\ ~HasChildLeft(top, webDocs)
        /\ IF n = 1
             THEN /\ parsed' = ReturnValue(top, webDocs)
                  /\ frames' = <<>>
                  /\ pc' = "resolved"
             ELSE /\ frames' =
                       Append(SubSeq(frames, 1, n - 2),
                              [frames[n - 1] EXCEPT
                                 !.urls = @ \o ReturnValue(top, webDocs),
                                 !.next = @ + 1])
                  /\ UNCHANGED <<parsed, pc>>
  /\ UNCHANGED <<options, cacheAtStart, cacheFile, outFile, sitemapCalls,
                 sitemapUrls, visited, queue, results, processed, batch,
                 promises, idx, fetched, failed, clock, reportCalls,
                 sitemapFailed, cmsPages, enqueued, webDocs, rendered,
                 lastFetch>>

NextCalls ==
  \/ CallChild
  \/ ReturnUrls

SpecCalls == InitCalls /\ [][NextCalls]_vars

\* the event loop runs every continuation that is ready
FairSpecCalls == SpecCalls /\ WF_vars(NextCalls)

\* ------------------------------- the output write of crawl.ts, on its own
\* pages a result collection can hold: a plain one, one whose title holds a
\* comma, one whose fetch failed
RenderPages ==
  { CachedPage(UrlA, 0),
    [CachedPage(UrlB, 1) EXCEPT !.title = "Hello, World"],
    extractMetadata(Task(BaseUrl, 0, "none"), "http", <<>>, <<>>) }

InitRender ==
  /\ pc = "render"
  /\ results \in SeqsUpTo(RenderPages, MaxSitemapLen)
  /\ \E f \in Formats : options = [NoOptions EXCEPT !.format = f]
  /\ rendered = <<>>
  /\ clock = 0
  /\ cacheAtStart = NoFile
  /\ cacheFile = NoFile
  /\ outFile = NoFile
  /\ sitemapCalls = 0
  /\ sitemapUrls = <<>>
  /\ visited = {}
  /\ queue = <<>>
  /\ processed = 0
  /\ batch = <<>>
  /\ promises = <<>>
  /\ idx = 0
  /\ fetched = [u \in SiteUrls |-> 0]
  /\ failed = {}
  /\ reportCalls = 0
  /\ sitemapFailed = FALSE
  /\ cmsPages = NotPushed
  /\ enqueued = <<>>
  /\ lastFetch = 0
  /\ webDocs = <<>>
  /\ parsed = <<>>
  /\ frames = <<>>

\* the output file is written from results; the second write comes later
WriteFile ==
  /\ pc = "render"
  /\ Len(rendered) < 2
  /\ Len(rendered) = 1 => clock > 0
  /\ outFile' = OutputContent(options.format, results, clock)
  /\ rendered' = Append(rendered, outFile'.text)
  /\ UNCHANGED <<pc, options, cacheAtStart, cacheFile, sitemapCalls,
                 sitemapUrls, visited, queue, results, processed, batch,
                 promises, idx, fetched, failed, clock, reportCalls,
                 sitemapFailed, cmsPages, webDocs, parsed, frames,
                 enqueued, lastFetch>>

\* an hour passes after the first write
HourPasses ==
  /\ pc = "render"
  /\ Len(rendered) = 1
  /\ clock = 0
  /\ clock' = clock + 1
  /\ UNCHANGED <<pc, options, cacheAtStart, cacheFile, outFile, sitemapCalls,
                 sitemapUrls, visited, queue, results, processed, batch,
                 promises, idx, fetched, failed, reportCalls, sitemapFailed,
                 cmsPages, sideVars,
                 enqueued, lastFetch>>

NextRender == WriteFile \/ HourPasses

SpecRender == InitRender /\ [][NextRender]_vars

\* ------------------------------------------------------------ vocabulary
RECURSIVE SumOver(_, _)
SumOver(f, S) ==
  IF S = {} THEN 0
  ELSE LET u == CHOOSE x \in S : TRUE IN f[u] + SumOver(f, S \ {u})

\* number of extractMetadata invocations of this run
NumDispatched == SumOver(fetched, DOMAIN fetched)

\* the pages the run loaded from the cache
LoadedPages == CacheLoad(cacheAtStart).results

\* the controller stands between two batches, or has returned
AtBatchBoundary == pc \in {"loop", "done"}

NoDuplicateUrls(pages) ==
  \A i, j \in DOMAIN pages : i # j => pages[i].url # pages[j].url

\* tasks of the current batch that hold a URL an earlier task of it holds
LaterCopies == {j \in DOMAIN batch : \E i \in 1..(j - 1) : batch[i].url = batch[j].url}

\* ------------------------------------------------------------------ claims

\* C1: during one crawl invocation extractMetadata is invoked at most once
\* per URL string, whatever was enqueued; a later copy of a URL inside a
\* batch is skipped and contributes no result.
AtMostOneFetchPerUrl ==
  /\ \A u \in AllUrls : fetched[u] <= 1
  /\ pc \in {"await", "integrate", "links"} =>
       \A j \in LaterCopies : promises[j].state = "null"

\* C1 witness: a batch holds two copies of a URL; the first was dispatched,
\* the second was skipped.
DuplicateCopySkipped ==
  /\ pc = "await"
  /\ \E j \in LaterCopies :
       /\ promises[j].state = "null"
       /\ fetched[batch[j].url] = 1

DispatchedWithinLimit ==
  pc # "main" => NumDispatched <= options.limit

\* C4: every task ever enqueued and every PageResult produced by a fetch
\* has depth <= options.depth when followLinks is on, and depth 0 when
\* followLinks is off or the run is in single-page mode.
DepthOk(d) ==
  /\ options.followLinks => d <= options.depth
  /\ (~options.followLinks \/ options.singlePage) => d = 0

DepthBounded ==
  pc # "main" =>
    /\ \A i \in DOMAIN queue : DepthOk(queue[i].depth)
    /\ \A i \in DOMAIN batch : DepthOk(batch[i].depth)
    /\ \A i \in DOMAIN promises :
         promises[i].state = "meta" => DepthOk(promises[i].meta.depth)
    /\ \A i \in DOMAIN results :
         i > Len(LoadedPages) => DepthOk(results[i].depth)

\* C4 witness: links were followed down to the maximal depth and a page of
\* that depth was fetched.
FetchedAtMaxDepth ==
  /\ options.followLinks
  /\ options.depth >= 1
  /\ \E i \in DOMAIN results :
       i > Len(LoadedPages) /\ results[i].depth = options.depth

\* C5: a URL with a result in the cache loaded at start is never handed to
\* extractMetadata, and its cached result stays in the result collection.
CachedNeverRefetched ==
  pc \notin {"main", "cache"} =>
    \A i \in DOMAIN LoadedPages :
      /\ fetched[LoadedPages[i].url] = 0
      /\ i <= Len(results)
      /\ results[i] = LoadedPages[i]

\* C5 witness: the run is over; cached URLs were offered by the sitemap, as
\* the base URL and as a link of a freshly fetched page.
CachedUrlOfferedAgain ==
  /\ pc = "done"
  /\ LoadedPages # <<>>
  /\ ~options.sitemapOnly
  /\ BaseUrl \in UrlsOf(LoadedPages)
  /\ UrlB \in UrlsOf(LoadedPages) /\ UrlB \in Range(sitemapUrls)
  /\ \E i \in DOMAIN results :
       /\ i > Len(LoadedPages)
       /\ MayFollow(options, results[i])
       /\ UrlB \in Range(results[i].links)

\* C6: in single-page mode the queue is seeded with the target URL at depth
\* 0 only, parseSitemap is never called, and no URL but the target page is
\* ever fetched.
SinglePageOnlyTarget ==
  options.singlePage =>
    /\ sitemapCalls = 0
    /\ \A i \in DOMAIN queue : queue[i] = Task(BaseUrl, 0, "none")
    /\ \A u \in AllUrls \ {BaseUrl} : fetched[u] = 0

\* the candidates of a run that follows no link: sitemap URLs and base URL
Candidates == Range(sitemapUrls) \cup {BaseUrl}

\* C7: without cache, with followLinks and sitemapOnly off and a limit that
\* covers every candidate, the finished crawl holds exactly one PageResult
\* per distinct sitemap URL and one for the base URL, all at depth 0.
SitemapPlusBaseResults ==
  ( /\ pc = "done"
    /\ cacheAtStart = NoFile
    /\ ~options.followLinks
    /\ ~options.sitemapOnly
    /\ options.limit >= Cardinality(Candidates) )
  => /\ UrlsOf(results) = Candidates
     /\ Len(results) = Cardinality(Candidates)
     /\ \A i \in DOMAIN results : results[i].depth = 0

\* C7 witness: sitemap <<A, B>> plus the base URL ended as three results.
ThreeCandidatesCrawled ==
  /\ pc = "done"
  /\ cacheAtStart = NoFile
  /\ ~options.followLinks
  /\ ~options.sitemapOnly
  /\ sitemapUrls = <<UrlA, UrlB>>
  /\ options.limit >= Cardinality(Candidates)
  /\ Len(results) = 3

\* the tasks of the queue that came from the sitemap
SitemapTasks(q) == {i \in DOMAIN q : q[i].sitemapData = "hint"}

\* the queue is seeded and no batch has started yet
AfterSeeding == pc = "loop" /\ NumDispatched = 0

\* C8: seeding from the sitemap stops once processed plus the queued tasks
\* would exceed options.limit: after seeding, processed + number of sitemap
\* tasks in the queue <= options.limit (the base URL task is not counted).
SeedingRespectsLimit ==
  (AfterSeeding /\ SitemapTasks(queue) # {}) =>
    processed + Cardinality(SitemapTasks(queue)) <= options.limit

\* positions of the result collection that hold the result of URL u
ResultsOf(u) == {i \in DOMAIN results : results[i].url = u}

ErrorResult(m) == m.error # "" /\ m.title = "" /\ m.links = <<>>

\* C9: a failed fetch never fails the batch or stops the crawl: the URL gets
\* a PageResult with a populated error field, empty title and no links,
\* every dispatched task has its own result once the batch is integrated,
\* and the crawl ends only when the loop condition fails.
FetchFailureRecovered ==
  /\ \A i \in DOMAIN promises :
       promises[i].state = "meta" =>
         (promises[i].meta.url \in failed <=> ErrorResult(promises[i].meta))
  /\ AtBatchBoundary =>
       \A u \in AllUrls :
         fetched[u] >= 1 =>
           /\ Cardinality(ResultsOf(u)) = 1
           /\ \A i \in ResultsOf(u) : (u \in failed <=> ErrorResult(results[i]))
  /\ pc = "done" => ~LoopGuard(queue, processed, options.limit)

\* C9 witness: the first task of a batch of two failed, its sibling got its
\* own result, and the next batch was fetched after that.
CrawlWentOnAfterFailure ==
  /\ pc = "done"
  /\ cacheAtStart = NoFile
  /\ options.concurrency = 2
  /\ sitemapUrls = <<UrlA, UrlB>>
  /\ Len(results) = 3
  /\ results[1].url = UrlA /\ UrlA \in failed /\ ErrorResult(results[1])
  /\ results[2].url = UrlB /\ results[2].error = ""
  /\ results[3].url = BaseUrl

\* the result collection as it stood when the current batch was complete
\* but not yet integrated, and as it stands once it is integrated
BatchStartResults ==
  SubSeq(results, 1,
         Len(results) - Len(MetasOf(SubSeq(promises, 1, idx - 1))))
BatchEndResults == BatchStartResults \o MetasOf(promises)

CacheWritten == cacheFile # cacheAtStart
OutputWritten == outFile # NoFile

\* C10 (as stated): whatever was written to the cache file or to the output
\* file holds as pages the result collection of a batch boundary, never the
\* collection with only a part of a batch integrated.
WritesAreBatchComplete ==
  /\ CacheWritten =>
       IF pc = "integrate"
         THEN cacheFile.pages \in {BatchStartResults, BatchEndResults}
         ELSE cacheFile.pages = results
  /\ OutputWritten =>
       IF pc = "integrate"
         THEN outFile.pages \in {BatchStartResults, BatchEndResults}
         ELSE outFile.pages = results

\* C10 (amended): the output file always holds the result collection of a
\* batch boundary; the cache file is rewritten after every single
\* integrated result and always holds the result collection so far, partial
\* batch included.
OutputBatchCompleteCachePerResult ==
  /\ OutputWritten =>
       /\ outFile.kind = options.format
       /\ outFile.pages = (IF pc = "integrate" THEN BatchStartResults ELSE results)
  /\ CacheWritten => cacheFile.pages = results

\* C10 witness: in the middle of integrating a batch of two results the
\* cache file holds the first of them while the output file still holds
\* the collection of the previous batch.
CacheHoldsPartialBatch ==
  /\ pc = "integrate"
  /\ OutputWritten
  /\ CacheWritten
  /\ Len(BatchStartResults) < Len(results)
  /\ Len(results) < Len(BatchEndResults)
  /\ cacheFile.pages = results
  /\ outFile.pages = BatchStartResults

\* the program has left: crawl() of crawl.ts returned, or the script exited
Exited == pc \in {"done", "exit"}

\* C11: every run generates the final report exactly once before it exits,
\* on every path: empty frontier, page limit reached, fresh-cache
\* short-circuit, and a sitemap-only run whose sitemap came back empty.
ReportGeneratedOnce == Exited => reportCalls = 1

\* the positions of the script report.ts; every other one is of crawl.ts
LegacyPcs ==
  {"legacy", "legacyCache", "legacySitemap", "legacyLoop", "legacyAwait",
   "exit"}

\* the cache found at start is younger than the window and --force is off
FreshCacheAtStart ==
  /\ cacheAtStart.kind = "json"
  /\ clock - cacheAtStart.crawlDate < StalenessWindow
  /\ ~options.force

\* the cache check is behind the program
PastCacheCheck == pc \notin {"main", "cache", "legacy", "legacyCache"}

\* C12 (as stated): with a fresh cache and no --force the run loads the
\* cached pages, resolves no sitemap, fetches no page and goes straight to
\* the report; with an older cache it crawls the network.
FreshCacheSkipsCrawl ==
  PastCacheCheck =>
    IF FreshCacheAtStart
      THEN /\ sitemapCalls = 0
           /\ NumDispatched = 0
           /\ results = cacheAtStart.pages
      ELSE Exited => sitemapCalls = 1

\* C12 (amended): the script report.ts short-circuits on a fresh cache
\* without --force: cached pages loaded, no sitemap resolution, no fetch,
\* one report, exit; with a stale cache or --force it loads nothing from
\* the cache and crawls.  crawl.ts has no staleness window: whatever the
\* age of the cache it loads the cached pages, resolves the sitemap once
\* and fetches only URLs the cache does not hold.
ShortCircuitOnlyInScript ==
  PastCacheCheck =>
    IF pc \in LegacyPcs
      THEN IF FreshCacheAtStart
             THEN /\ pc = "exit"
                  /\ sitemapCalls = 0
                  /\ NumDispatched = 0
                  /\ results = cacheAtStart.pages
                  /\ reportCalls = 1
             ELSE /\ pc # "legacySitemap" => sitemapCalls = 1
                  /\ Len(results) = NumDispatched - Cardinality(
                       {i \in DOMAIN promises :
                          pc = "legacyAwait" /\ promises[i].state # "null"})
      ELSE /\ pc # "sitemap" => sitemapCalls = 1
           /\ SubSeq(results, 1, Len(LoadedPages)) = LoadedPages
           /\ \A u \in UrlsOf(LoadedPages) : fetched[u] = 0

\* C12 witness: the script found a fresh cache of two pages and left with
\* them as its results, no sitemap resolved and nothing fetched.
ScriptShortCircuited ==
  /\ pc = "exit"
  /\ FreshCacheAtStart
  /\ Len(results) = 2
  /\ results = cacheAtStart.pages
  /\ sitemapCalls = 0
  /\ NumDispatched = 0
  /\ reportCalls = 1

\* the crawl state is the one a run without cache file has after the load
StateAsWithoutCache == results = <<>> /\ visited = {} /\ processed = 0

\* C13: a cache file that cannot be loaded (not JSON, truncated, pages
\* missing or not an array, a malformed entry inside pages) is non-fatal and
\* leaves the crawl state exactly as with no cache: after the load results
\* and visited are empty and processed is 0, and the run never ends in an
\* uncaught error.
CorruptCacheIsNoCache ==
  /\ (cacheAtStart \in CorruptCaches /\ pc = "sitemap") => StateAsWithoutCache
  /\ cacheAtStart \in CorruptCaches => pc # "crashed"

\* the base URL was fetched in this run
BaseFetched == fetched[BaseUrl] = 1

\* C14 (as stated): when sitemap resolution fails the resolver returns an
\* empty list and throws nothing; the controller then crawls from the base
\* URL when sitemapOnly is off, and when it is on it fetches no page and
\* ends with zero pages in the result collection.
SitemapFailureZeroPages ==
  sitemapFailed =>
    /\ sitemapUrls = <<>>
    /\ pc # "crashed"
    /\ (~options.sitemapOnly /\ Exited) => BaseFetched
    /\ options.sitemapOnly =>
         /\ NumDispatched = 0
         /\ Exited => results = <<>>

\* C14 (amended): when sitemap resolution fails the resolver returns an
\* empty list and throws nothing.  With sitemapOnly off the queue is seeded
\* with the base URL alone and the base URL is crawled, unless (crawl.ts)
\* the cache already holds the base URL or already fills the limit.  With
\* sitemapOnly on no page is fetched and the result collection ends as it
\* was after the cache load: the cached pages in crawl.ts, empty in the
\* script and whenever there is no cache.
SitemapFailureFallsBack ==
  sitemapFailed =>
    /\ sitemapUrls = <<>>
    /\ pc # "crashed"
    /\ IF pc \in LegacyPcs
         THEN /\ (pc = "legacyLoop" /\ NumDispatched = 0) =>
                   queue = <<Task(BaseUrl, 0, "none")>>
              /\ (~options.sitemapOnly /\ Exited) => BaseFetched
              /\ options.sitemapOnly =>
                   pc = "exit" /\ NumDispatched = 0 /\ results = <<>>
         ELSE /\ AfterSeeding =>
                   queue = (IF ~options.sitemapOnly
                               /\ BaseUrl \notin UrlsOf(LoadedPages)
                              THEN <<Task(BaseUrl, 0, "none")>> ELSE <<>>)
              /\ ( /\ ~options.sitemapOnly
                   /\ Exited
                   /\ BaseUrl \notin UrlsOf(LoadedPages)
                   /\ Len(LoadedPages) < options.limit ) => BaseFetched
              /\ options.sitemapOnly =>
                   /\ NumDispatched = 0
                   /\ Exited => results = LoadedPages

\* C14 witness: crawl.ts ran in sitemap-only mode on a cache of two pages,
\* the sitemap failed, nothing was fetched and the run ended with the two
\* cached pages as its results.
SitemapOnlyEndedOnCachedPages ==
  /\ pc = "done"
  /\ sitemapFailed
  /\ options.sitemapOnly
  /\ Len(LoadedPages) = 2
  /\ results = LoadedPages
  /\ NumDispatched = 0

\* the concatenation of a sequence of lists
RECURSIVE ConcatAll(_)
ConcatAll(lists) ==
  IF lists = <<>> THEN <<>> ELSE Head(lists) \o ConcatAll(Tail(lists))

\* the pages of the document at addr when it is a urlset, else none
UrlsetPages(addr) ==
  IF webDocs[addr].kind = "urlset" THEN webDocs[addr].items ELSE <<>>

\* what a child of the root contributes: its own pages, or, for an index,
\* the pages of the urlsets it lists; nothing when it fails
ChildPages(addr) ==
  IF webDocs[addr].kind = "index"
    THEN ConcatAll([i \in DOMAIN webDocs[addr].items |->
                      UrlsetPages(webDocs[addr].items[i])])
    ELSE UrlsetPages(addr)

\* C15: parseSitemap on a sitemap index returns the concatenation, in index
\* order, of the URL lists of its children, nested indexes followed; a
\* child that fails to fetch or parse contributes the empty list and takes
\* nothing away from its siblings.
IndexFlattenedInOrder ==
  (pc = "resolved" /\ webDocs[DefaultSitemap].kind = "index") =>
    parsed = ConcatAll([i \in DOMAIN webDocs[DefaultSitemap].items |->
                          ChildPages(webDocs[DefaultSitemap].items[i])])

\* C15 witness: an index of two children, the first itself an index of a
\* urlset of two URLs, the second a urlset of two URLs, gave four URLs in
\* index order.
FourUrlsFromTwoChildren ==
  /\ pc = "resolved"
  /\ webDocs[DefaultSitemap] = Doc("index", <<SitemapChild1, SitemapChild2>>)
  /\ webDocs[SitemapChild1] = Doc("index", <<SitemapGrandchild>>)
  /\ webDocs[SitemapGrandchild] = Doc("urlset", <<UrlA, UrlB>>)
  /\ webDocs[SitemapChild2] = Doc("urlset", <<UrlB, BaseUrl>>)
  /\ parsed = <<UrlA, UrlB, UrlB, BaseUrl>>

\* the tasks of the current batch that are under way
InFlight == {i \in DOMAIN promises : promises[i].state \in InFlightPhases}

\* C16: at every moment at most options.concurrency fetch tasks are in
\* flight, all of them tasks of the current batch, and while one is in
\* flight the controller integrates no result, enqueues no link, writes
\* neither file and starts no batch.
BatchAwaitedWhole ==
  /\ [](/\ Cardinality(InFlight) <= options.concurrency
        /\ InFlight # {} => /\ pc = "await"
                            /\ Len(promises) = Len(batch)
                            /\ \A i \in InFlight : batch[i].url \in visited)
  /\ [][InFlight # {} =>
          UNCHANGED <<results, queue, cacheFile, outFile, batch>>]_vars

\* C16 witness: a batch of two with concurrency 2, one task resolved with
\* its result and the other still in flight, the controller waiting.
OneResolvedOneInFlight ==
  /\ pc = "await"
  /\ options.concurrency = 2
  /\ Len(batch) = 2
  /\ promises[1].state = "meta"
  /\ 2 \in InFlight

\* C17: every dispatched task eventually resolves: whatever phase the
\* remote side stalls in (connecting, headers, response body, suggestion
\* call), the per-request timeout fires and the task resolves with an error
\* result, so every batch that is awaited is eventually integrated.
EveryBatchCompletes == (pc = "await") ~> (pc = "integrate")

\* the mechanism C17 rests on: a task that awaits the remote side has its
\* abort timer armed
EveryAwaitHasTimeout ==
  \A i \in InFlight : TimerArmed(promises[i])

\* the page a URL string names, whatever its spelling
PageOf(u) == ParseUrl(u).stem

\* C18: every URL in the visited set is in normalized form (a fixed point
\* of normalizeUrl: no fragment, no trailing slash), whatever its origin, so
\* two spellings of one page are never both fetched in one crawl.
VisitedIsNormalized ==
  /\ \A u \in visited : normalizeUrl(u) = u
  /\ \A u, v \in DOMAIN fetched :
       (fetched[u] > 0 /\ fetched[v] > 0 /\ u # v) => PageOf(u) # PageOf(v)

\* the same result collection was written twice, an hour apart
WrittenTwice == pc = "render" /\ Len(rendered) = 2

\* C19 (as stated): writing the JSON output or the CSV output twice from
\* the same unchanged result collection, at two different times, gives
\* byte-identical file contents.
RenderingIdempotent ==
  (WrittenTwice /\ options.format \in {"json", "csv"}) =>
    rendered[1] = rendered[2]

\* C19 (amended): the CSV output written twice from the same result
\* collection is byte-identical; the JSON output differs in its crawlDate
\* field, which holds the time of writing, and in nothing else.
RenderingIdempotentButCrawlDate ==
  WrittenTwice =>
    /\ options.format = "csv" => rendered[1] = rendered[2]
    /\ options.format = "json" =>
         /\ rendered[1].crawlDate # rendered[2].crawlDate
         /\ rendered[2].crawlDate = clock
         /\ rendered[1].pages = results
         /\ [rendered[1] EXCEPT !.crawlDate = clock] = rendered[2]

\* C19 witness: two pages, one with a comma in its title, written twice as
\* JSON; the two files differ.
JsonFilesDiffer ==
  /\ WrittenTwice
  /\ options.format = "json"
  /\ Len(results) = 2
  /\ \E i \in DOMAIN results : NeedsQuoting(results[i].title)
  /\ rendered[1] # rendered[2]

\* C20: with --push-cms, once the crawl is over the CMS publisher receives
\* the final result collection of the crawl, every PageResult of the run.
CmsReceivesResults ==
  cmsPages.called => (cmsPages.defined /\ cmsPages.pages = results)

\* the URLs the seeding of a run without cache puts in the queue
SeededUrls ==
  Range(sitemapUrls) \cup (IF options.sitemapOnly THEN {} ELSE {BaseUrl})

\* nothing of the cache found at start is in the crawl state: whatever is
\* visited was dispatched in this run, and every result is of this run
NothingFromCache ==
  /\ \A u \in visited : fetched[u] >= 1
  /\ \A i \in DOMAIN results : fetched[results[i].url] >= 1
  /\ processed = NumDispatched

\* every seeded URL was fetched in this run, unless the limit ended the run
SeededAllFetched ==
  (Exited /\ processed < options.limit) =>
    \A u \in SeededUrls : fetched[u] = 1

\* C21 (as stated): with --force the run ignores any existing cache: no
\* cached page pre-populates the result collection or the visited set, and
\* every seeded URL is fetched again.
ForceIgnoresCache ==
  (options.force /\ PastCacheCheck) => (NothingFromCache /\ SeededAllFetched)

\* C21 (amended): in the script report.ts --force skips the cache check:
\* no cached page pre-populates results or visited, and every seeded URL is
\* fetched again as far as the limit allows.  In crawl.ts --force has no
\* effect: the cached pages are loaded, marked visited and never fetched.
ForceOnlyInScript ==
  (options.force /\ PastCacheCheck) =>
    IF pc \in LegacyPcs
      THEN NothingFromCache /\ SeededAllFetched
      ELSE /\ SubSeq(results, 1, Len(LoadedPages)) = LoadedPages
           /\ UrlsOf(LoadedPages) \subseteq visited
           /\ \A u \in UrlsOf(LoadedPages) : fetched[u] = 0

\* C21 witness: the script ran with --force on a fresh cache that holds the
\* base URL, and fetched the base URL again.
ForcedScriptRefetched ==
  /\ pc = "exit"
  /\ options.force
  /\ cacheAtStart.kind = "json"
  /\ clock - cacheAtStart.crawlDate < StalenessWindow
  /\ BaseUrl \in UrlsOf(cacheAtStart.pages)
  /\ fetched[BaseUrl] = 1
  /\ \E i \in DOMAIN results : results[i].url = BaseUrl /\ results[i].depth = 0

\* the positions of the enqueue history that hold a task for URL u
EnqueuesOf(u) == {k \in DOMAIN enqueued : enqueued[k].url = u}

\* the depth of the first task for u that was enqueued
FirstDepth(u) == enqueued[Least(EnqueuesOf(u))].depth

\* a batch has been taken and the loop has not come round yet
InBatch == pc \in {"await", "integrate", "links"}

\* the queue is what is left of the enqueue history after k tasks were
\* taken from its front, the last of them being the current batch
FrontTaken(k) ==
  /\ queue = SubSeq(enqueued, k + 1, Len(enqueued))
  /\ InBatch =>
       /\ Len(batch) \in 1..options.concurrency
       /\ batch = SubSeq(enqueued, k - Len(batch) + 1, k)
       /\ (pc = "await" /\ Len(batch) < options.concurrency) => queue = <<>>

\* C22: the frontier is FIFO (enqueue appends, dequeue takes up to
\* concurrency tasks from the front), and for every fetched URL the depth in
\* its PageResult is the depth of the first task for it that was enqueued,
\* whatever was enqueued for it later.
FifoFirstDepthWins ==
  /\ \E k \in 0..Len(enqueued) : FrontTaken(k)
  /\ \A i \in DOMAIN promises :
       promises[i].state = "meta" =>
         promises[i].meta.depth = FirstDepth(promises[i].meta.url)
  /\ \A i \in DOMAIN results :
       i > Len(LoadedPages) => results[i].depth = FirstDepth(results[i].url)

\* C22 witness: a URL was enqueued at depth 0 and, before it was fetched,
\* again at depth 1 as a link; its result holds depth 0.
EnqueuedTwiceKeptFirstDepth ==
  /\ pc = "done"
  /\ \E u \in AllUrls :
       /\ \E j, k \in EnqueuesOf(u) :
            j < k /\ enqueued[j].depth = 0 /\ enqueued[k].depth = 1
       /\ \E i \in DOMAIN results :
            /\ i > Len(LoadedPages)
            /\ results[i].url = u
            /\ results[i].depth = 0

\* the tasks a step pushes to the queue
NewTasks == SubSeq(enqueued', Len(enqueued) + 1, Len(enqueued'))

\* task t is a link of a result of the current batch, one level below it,
\* and that result is above the maximal depth
FromLinkOfResult(t) ==
  \E i \in DOMAIN promises :
    /\ promises[i].state = "meta"
    /\ t.url \in Range(promises[i].meta.links)
    /\ t.depth = promises[i].meta.depth + 1
    /\ promises[i].meta.depth < options.depth

\* the seeding is behind the controller
Seeded == pc \notin {"main", "cache", "sitemap"}

\* C23: after seeding the frontier grows only by link discovery: a task
\* (link, d+1) is appended only when followLinks is on, the result it comes
\* from has depth d < maxDepth, the link is of the base hostname and is not
\* visited at that moment; with followLinks off the frontier only shrinks.
FrontierGrowsByLinksOnly ==
  [][Seeded =>
       /\ \/ queue' = queue \o NewTasks
          \/ enqueued' = enqueued /\ Len(queue') < Len(queue)
       /\ \A k \in DOMAIN NewTasks :
            /\ options.followLinks
            /\ FromLinkOfResult(NewTasks[k])
            /\ PageOf(NewTasks[k].url) \in AllUrls
            /\ NewTasks[k].url \notin visited
       /\ ~options.followLinks => Len(queue') <= Len(queue)]_vars

\* C23 witness: the links of a depth-0 result were enqueued at depth 1,
\* while a link of it that was already visited was left out.
LinkEnqueuedVisitedLeftOut ==
  /\ pc = "loop"
  /\ options.followLinks
  /\ Len(queue) > 0
  /\ queue[Len(queue)].depth = 1
  /\ \E i \in DOMAIN promises :
       /\ promises[i].state = "meta"
       /\ queue[Len(queue)].url \in Range(promises[i].meta.links)
       /\ \E l \in Range(promises[i].meta.links) :
            l \in visited /\ \A k \in EnqueuesOf(l) : enqueued[k].depth = 0

\* sequence s is the head of sequence t
IsPrefix(s, t) == Len(s) <= Len(t) /\ SubSeq(t, 1, Len(s)) = s

\* C24: the result collection is append-only during a crawl: integrating a
\* batch only appends PageResults, so the pages loaded from the cache and
\* the results of earlier batches stay in it, in the same order and with
\* the same fields, to the end of the run.
ResultsAppendOnly ==
  /\ [](pc \notin {"main", "cache"} => IsPrefix(LoadedPages, results))
  /\ [][/\ IsPrefix(results, results')
        /\ pc = "integrate" =>
             \/ results' = results
             \/ results' = Append(results, promises[idx].meta)]_vars

\* C24 witness: two pages came from the cache, the result of a fetched page
\* was appended behind them, and the run is over.
TwoCachedOneAppended ==
  /\ pc = "done"
  /\ Len(LoadedPages) = 2
  /\ Len(results) = 3
  /\ SubSeq(results, 1, 2) = LoadedPages
  /\ fetched[results[3].url] = 1

\* a batch of this run is complete and the controller is at the loop head
\* or behind the loop
AfterBatch == pc \in {"loop", "done", "legacyLoop", "exit"} /\ NumDispatched > 0

\* both files hold the result collection
FilesHoldResults ==
  /\ cacheFile.kind = "json"
  /\ cacheFile.pages = results
  /\ outFile.kind = options.format
  /\ outFile.pages = results

\* C25 (as stated): after every completed batch the cache file and the
\* selected output file have been rewritten and the pages of both are the
\* full result collection of that batch boundary.
FilesWrittenEveryBatch == AfterBatch => FilesHoldResults

\* C25 (amended): in crawl.ts, after every completed batch both files have
\* been rewritten and hold the full result collection.  The script
\* report.ts writes no file between batches: until its loop has ended the
\* cache file is the one found at start and there is no output file; both
\* are written once, by generateReport, before the exit.
FilesWrittenEveryBatchInCrawlTs ==
  AfterBatch =>
    CASE pc \in {"loop", "done", "exit"} -> FilesHoldResults
      [] pc = "legacyLoop" -> cacheFile = cacheAtStart /\ outFile = NoFile

\* C25 witness: crawl.ts stands between two batches, and both files hold
\* the results integrated so far.
BetweenBatchesFilesCurrent ==
  /\ pc = "loop"
  /\ LoopGuard(queue, processed, options.limit)
  /\ NumDispatched > 0
  /\ Len(results) > Len(LoadedPages)
  /\ FilesHoldResults

\* a step that starts a batch
BatchStarts == pc = "loop" /\ pc' = "await"

CacheLoaded == pc \notin {"main", "cache"}

\* C28: pages loaded from the cache count against the page limit: processed
\* starts at the number of cached pages, a batch is started only while
\* cached pages + newly processed < limit, and a run whose cache holds limit
\* or more pages enqueues no sitemap URL and fetches nothing.
CachedPagesCountAgainstLimit ==
  /\ [](CacheLoaded => processed = Len(LoadedPages) + NumDispatched)
  /\ [][BatchStarts => Len(LoadedPages) + NumDispatched < options.limit]_vars
  /\ []((Seeded /\ Len(LoadedPages) >= options.limit) =>
          /\ SitemapTasks(enqueued) = {}
          /\ NumDispatched = 0
          /\ results = LoadedPages)

\* C28 witness: the cache held two pages, the limit was two, the sitemap
\* named a page the cache did not hold, and the run ended without a fetch.
CacheFilledLimitNothingFetched ==
  /\ pc = "done"
  /\ Len(LoadedPages) = 2
  /\ options.limit = 2
  /\ UrlA \in Range(sitemapUrls)
  /\ UrlA \notin UrlsOf(LoadedPages)
  /\ NumDispatched = 0

\* an address is fetched by two pending invocations at once
AddressPendingTwice ==
  \E i, j \in DOMAIN frames : i < j /\ frames[i].url = frames[j].url

\* the resolution call by call returns what parseSitemap is defined to
\* return
CallsAgreeWithParseSitemap ==
  pc = "resolved" => parsed = parseSitemap(DefaultSitemap, webDocs)

\* C29: parseSitemap terminates and returns a finite list for every finite
\* set of sitemap documents, sitemap indexes that reference themselves or
\* each other in a cycle included.
SitemapResolutionTerminates == <>(pc = "resolved")

\* a run after the first of a series
LaterRun == clock > StalenessWindow

\* the step of the cache short-circuit
ShortCircuits == pc = "legacyCache" /\ pc' = "exit"

\* C30: a run that takes the fresh-cache short-circuit rewrites the cache
\* file with crawlDate set to the time of that run, not the time of the
\* crawl that produced the pages; so as long as consecutive runs without
\* --force are less than 24 hours apart, every one of them short-circuits
\* and no page is ever fetched again.
ShortCircuitRenewsCache ==
  /\ [][ShortCircuits =>
          /\ cacheFile'.crawlDate = clock
          /\ cacheFile'.pages = cacheFile.pages
          /\ results' = cacheFile.pages
          /\ lastFetch' = lastFetch]_vars
  /\ []((LaterRun /\ pc \notin {"legacyAgain", "legacyCache"}) =>
          /\ pc = "exit"
          /\ NumDispatched = 0
          /\ results = cacheAtStart.pages
          /\ cacheFile.crawlDate = clock
          /\ lastFetch <= StalenessWindow)

\* C30 witness: the third run of a series, 69 hours after the crawl that
\* fetched the pages, took the short-circuit and stamped the cache with
\* its own time.
ThirdRunStillShortCircuits ==
  /\ pc = "exit"
  /\ clock = 3 * (StalenessWindow - 1)
  /\ lastFetch = 0
  /\ clock - lastFetch > 2 * StalenessWindow
  /\ NumDispatched = 0
  /\ Len(results) = 2
  /\ cacheFile.crawlDate = clock

====
